---------------------------- MODULE Spec2Model ----------------------------
(***************************************************************************)
(* DriveHealth ETL: the Pub/Sub push ingestion service (handler.js,        *)
(* validation.js, sampling.js, batchProcessor.js, bq.js).                  *)
(*                                                                         *)
(* JavaScript values are written as tagged strings: "undefined", "null",   *)
(* "n:0" (the number 0), "n:1", "s:" (the empty string), "s:abc" (the      *)
(* string abc), "object".                                                  *)
(***************************************************************************)
EXTENDS Integers, Sequences, FiniteSets

VARIABLES
    maxBatchSize,           \* MAX_BATCH_SIZE (handler.js:11, batchProcessor.js:8)
    auditRate,              \* AUDIT_RATE (sampling.js:7), in units of 1/RateDen
    requests,               \* the requests POSTed to /pubsub so far, in arrival order
    result,                 \* per request: what processPubSubMessage resolved to
    httpStatus,             \* per request: the status handlePubSubRequest sent (0: none yet)
    batchQueue,             \* batchProcessor.js:13
    pendingBatchResponses,  \* batchProcessor.js:15
    batchTimer,             \* batchProcessor.js:14 (TRUE: holds a timer handle)
    timerScheduled,         \* the event loop still holds the setTimeout(flushBatch)
    timerArmedBy,           \* the request whose queueForBatch call set that timer (0: none)
    immediates,             \* number of setImmediate(flushBatch) callbacks not yet run
    resolveCalls,           \* per request: calls of its queueForBatch promise's resolve
    sinkCalls,              \* every bigquery insert call: its rows and whether it returned
    stored,                 \* the sink's table: rows stored per insertId
    fate,                   \* per request: what the sink did with its row
    logs,                   \* the warn and error records written to the logger
    proc,                   \* the service process: "running", "stopping" (the SIGTERM
                            \* handler awaits its flush) or "exited"
    awaited,                \* the insert call the SIGTERM handler's flush awaits (0: none)
    uFn, uIn, uOut,         \* a direct call of one exported function: name, argument, result
    \* the dead-letter replay job (index.js) and the Pub/Sub resources it works on
    maxReplayAttempts,      \* MAX_REPLAY_ATTEMPTS (index.js:14)
    dlq,                    \* the messages held by the dead-letter subscription
    mainTopic,              \* messages published to the ingestion topic, not yet consumed
    parkingLot,             \* messages published to the parking-lot topic
    republished,            \* per message: publishes to the ingestion topic by the job
    nextId,                 \* per event: number of the next message id Pub/Sub assigns
    arrived,                \* messages that were dead-lettered for the first time so far
    pc,                     \* the job: "stopped", "pull", "loop" or "ack"
    exitCode,               \* how the last run of the job ended: "none", "0" or "1"
    pullCount,              \* index.js:129
    capReported,            \* the run warned that it reached the pull limit
    messages,               \* index.js:65, the messages of the current pull
    cursor,                 \* the position of the for loop in messages
    successfulAckIds,       \* index.js:72
    publishCalls,           \* the publish calls of this pull: delivery, topic, outcome
    ackCalls,               \* the acknowledge calls of this pull: tokens, outcome
    failures                \* publish, acknowledge and pull calls that failed so far

vars == <<maxBatchSize, auditRate, requests, result, httpStatus, batchQueue,
          pendingBatchResponses, batchTimer, timerScheduled, timerArmedBy,
          immediates, resolveCalls, sinkCalls, stored, fate, logs, proc, awaited,
          uFn, uIn, uOut,
          maxReplayAttempts, dlq, mainTopic, parkingLot, republished, nextId,
          arrived, pc, exitCode, pullCount, capReported, messages, cursor,
          successfulAckIds, publishCalls, ackCalls, failures>>

svcVars == <<maxBatchSize, auditRate, requests, result, httpStatus, batchQueue,
             pendingBatchResponses, batchTimer, timerScheduled, timerArmedBy,
             immediates, resolveCalls, sinkCalls, stored, fate, logs, proc, awaited>>

unitVars == <<uFn, uIn, uOut>>

replayVars == <<maxReplayAttempts, dlq, mainTopic, parkingLot, republished, nextId,
                arrived, pc, exitCode, pullCount, capReported, messages, cursor,
                successfulAckIds, publishCalls, ackCalls, failures>>

-----------------------------------------------------------------------------
(* Bounds of the model *)

MaxRequests == 3        \* requests delivered in one run
MaxBatchCfg == 2        \* MAX_BATCH_SIZE is 1 (no batching) or MaxBatchCfg
MaxMessages == 2        \* messages dead-lettered for the first time in one run
MaxAttemptsCfg == 2     \* MAX_REPLAY_ATTEMPTS is 1 or MaxAttemptsCfg
MaxPullsCfg == 2        \* MAX_PULLS
BatchSizeCfg == 2       \* BATCH_SIZE of the replay job
MaxFailures == 1        \* failed publish, acknowledge and pull calls

Msgs == 1..MaxMessages

-----------------------------------------------------------------------------
(* JavaScript values *)

Undefined == "undefined"

\* JavaScript truthiness of a value: !v is true exactly for these.
Falsy == {"undefined", "null", "n:0", "s:", "false"}

Truthy(v) == v \notin Falsy

\* a || b
Or(a, b) == IF Truthy(a) THEN a ELSE b

RECURSIVE SeqToSet(_)
SeqToSet(s) == IF s = <<>> THEN {} ELSE {Head(s)} \cup SeqToSet(Tail(s))

-----------------------------------------------------------------------------
(* Error objects: name, message text, and the `errors` array when there is *)
(* one (hasErrors). An entry of `errors` is [index, reason, nested]:       *)
(* nested tells whether the entry has its own errors list                  *)
(* ({index, errors: [{reason, message}]}) or is flat ({reason, message}).  *)

NoFields == <<>>

Err(name, text) ==
    [name |-> name, message |-> text, fields |-> NoFields,
     hasErrors |-> FALSE, entries |-> <<>>]

MissingErr(missing) ==
    [name |-> "Error", message |-> "Missing required fields", fields |-> missing,
     hasErrors |-> FALSE, entries |-> <<>>]

\* Which lower-cased message texts contain which pattern (String.includes).
Contains ==
    { <<"Missing required fields", "missing required fields">>,
      <<"occurred_at must be a valid ISO date string", "occurred_at must be a valid">>,
      <<"No idempotency key found", "no idempotency key">>,
      <<"invalid json response body", "invalid json">> }

Includes(text, pattern) == <<text, pattern>> \in Contains

-----------------------------------------------------------------------------
(* validation.js *)

required == <<"envelope_version", "event_type", "schema_version", "tenant_id",
              "occurred_at", "payload">>

\* envelope[field]
Get(envelope, field) ==
    IF field = "payload" THEN envelope.payload.js ELSE envelope[field]

\* isNaN(Date.parse(v)) for the timestamp values of the model
DateParseIsNaN(v) == v \in {"undefined", "null", "s:", "s:not-a-date"}

Returned(v)  == [threw |-> FALSE, value |-> v, error |-> Err("none", "")]
Thrown(e)    == [threw |-> TRUE, value |-> Undefined, error |-> e]

validateEnvelope(envelope) ==
    LET missing == SelectSeq(required, LAMBDA f : ~Truthy(Get(envelope, f)))
    IN  IF Len(missing) > 0 THEN Thrown(MissingErr(missing))
        ELSE IF DateParseIsNaN(envelope.occurred_at)
             THEN Thrown(Err("Error", "occurred_at must be a valid ISO date string"))
             ELSE Returned("true")

computeIdempotencyKey_MessageFirst(envelope) ==
    IF envelope.payload.js \in {"undefined", "null"}
    THEN Thrown(Err("TypeError", "Cannot read properties of undefined"))
    ELSE LET key == Or(Or(envelope.payload.message_id, envelope.payload.call_id),
                       envelope.trace_id)
         IN  IF ~Truthy(key) THEN Thrown(Err("Error", "No idempotency key found"))
             ELSE Returned(key)

computeIdempotencyKey(envelope) ==
    IF envelope.payload.js \in {"undefined", "null"}
    THEN Thrown(Err("TypeError", "Cannot read properties of undefined"))
    ELSE LET key == Or(Or(envelope.payload.call_id, envelope.payload.message_id),
                       envelope.trace_id)
         IN  IF ~Truthy(key) THEN Thrown(Err("Error", "No idempotency key found"))
             ELSE Returned(key)

\* The parsed message data: a JSON object (an envelope record) or JSON null.
\* isNull: JSON.parse returned null, and validateEnvelope's envelope[field]
\* throws a TypeError that validateAndExtractKey catches like any other.
validateAndExtractKey(isNull, envelope) ==
    IF isNull
    THEN [isValid |-> FALSE, idempotencyKey |-> "null",
          errors |-> <<Err("Error", "Cannot read properties of null")>>]
    ELSE LET v == validateEnvelope(envelope)
             k == computeIdempotencyKey(envelope)
         IN  IF v.threw
             THEN [isValid |-> FALSE, idempotencyKey |-> "null", errors |-> <<v.error>>]
             ELSE IF k.threw
             THEN [isValid |-> FALSE, idempotencyKey |-> "null", errors |-> <<k.error>>]
             ELSE [isValid |-> TRUE, idempotencyKey |-> k.value, errors |-> <<>>]

-----------------------------------------------------------------------------
(* sampling.js *)

RateDen == 4            \* a rate r of the model stands for r / RateDen

\* The digest prefix, scaled to 16 bits: parseInt(hash.substring(0, 8), 16)
\* ranges over 0..0xffffffff; the model keeps its 16 leading bits.
HashMax == 65535

\* sha256(key), leading 16 bits (sha256("k1") = 6ab9f1eb.., sha256("k2") = 015f7e6b..).
\* "s:digest-min" and "s:digest-max" stand for the keys at the two ends of the
\* digest range, whose digest starts 00000000 and ffffffff.
Sha256Prefix(key) ==
    CASE key = "s:k1"         -> 27321
      [] key = "s:k2"         -> 351
      [] key = "s:digest-min" -> 0
      [] key = "s:digest-max" -> HashMax
      [] OTHER                -> 12112

\* the keys shouldSample is called with
SampleKeys == {"s:k1", "s:k2", "s:k3", "s:digest-min", "s:digest-max"}

\* hashValue < auditRate, with hashValue = prefix / HashMax and auditRate = rate / RateDen
shouldSample_NoKeepAll(idempotencyKey, rate) ==
    IF rate <= 0 THEN FALSE
    ELSE Sha256Prefix(idempotencyKey) * RateDen < rate * HashMax

shouldSample(idempotencyKey, rate) ==
    IF rate >= RateDen THEN TRUE
    ELSE IF rate <= 0 THEN FALSE
    ELSE Sha256Prefix(idempotencyKey) * RateDen < rate * HashMax

evaluateSampling_EveryNth(idempotencyKey, rate) ==
    IF rate >= RateDen THEN TRUE
    ELSE IF rate <= 0 THEN FALSE
    ELSE Len(requests) % RateDen < rate

evaluateSampling_KeepAll(idempotencyKey, rate) == TRUE

evaluateSampling(idempotencyKey, rate) == shouldSample(idempotencyKey, rate)

-----------------------------------------------------------------------------
(* Results handed to a caller: processPubSubMessage's return value and the *)
(* value a batch item's promise is resolved with.                          *)

Res(success, statusCode, isTerminal, errorType) ==
    [success |-> success, statusCode |-> statusCode, isTerminal |-> isTerminal,
     errorType |-> errorType, sampled |-> "undefined"]

\* { success: true, sampled: false, statusCode: 204 }
SampledOut == [Res(TRUE, 204, FALSE, "undefined") EXCEPT !.sampled = "false"]

NoResult == Res(FALSE, 0, FALSE, "pending")

-----------------------------------------------------------------------------
(* handler.js: categorizeError *)

\* {isTerminal, statusCode, errorType}
Cat(statusCode, isTerminal, errorType) ==
    [statusCode |-> statusCode, isTerminal |-> isTerminal, errorType |-> errorType]

\* { success: false, ...errorCategory }
Fail(cat) == Res(FALSE, cat.statusCode, cat.isTerminal, cat.errorType)

categorizeError(error) ==
    IF error.name = "PartialFailureError"
    THEN Cat(503, FALSE, "transient_error")
    ELSE IF \/ error.name = "SyntaxError"
            \/ Includes(error.message, "invalid json")
            \/ Includes(error.message, "malformed envelope")
    THEN Cat(422, TRUE, "format_error")
    ELSE IF \/ Includes(error.message, "missing required fields")
            \/ Includes(error.message, "no idempotency key")
            \/ Includes(error.message, "occurred_at must be a valid")
    THEN Cat(400, TRUE, "validation_error")
    ELSE Cat(503, FALSE, "transient_error")

-----------------------------------------------------------------------------
(* batchProcessor.js: mapBqErrorReason *)

mapBqErrorReason_InvalidTransient(reason) ==
    CASE reason = "duplicate" -> Cat(204, TRUE, "duplicate")
      [] OTHER                -> Cat(503, FALSE, "transient_error")

mapBqErrorReason(reason) ==
    CASE reason = "duplicate" -> Cat(204, TRUE, "duplicate")
      [] reason = "invalid"   -> Cat(422, TRUE, "validation_error")
      [] OTHER                -> Cat(503, FALSE, "transient_error")

-----------------------------------------------------------------------------
(* bq.js: writeBatchToBigQuery, given what the sink's insert call did.     *)
(* An event is [d, idempotencyKey]: d names the request it came from.      *)

\* insertOptions.rows: each row carries insertId = the event's idempotency key
\* (json.idempotencyKey is the row's key column, createBigQueryRow)
InsertRows_TraceId(events) ==
    [i \in 1..Len(events) |->
        [insertId |-> requests[events[i].d].envelope.trace_id,
         key |-> events[i].idempotencyKey, d |-> events[i].d]]

InsertRows(events) ==
    [i \in 1..Len(events) |->
        [insertId |-> events[i].idempotencyKey, key |-> events[i].idempotencyKey,
         d |-> events[i].d]]

SinkOk == [kind |-> "ok", error |-> Err("none", "")]

\* insert() rejected with an error that has no `errors` array
SinkTotal(text) == [kind |-> "total", error |-> Err("Error", text)]

\* insert() rejected with a PartialFailureError whose errors list the rejected
\* rows: {index, errors: [{reason, message}]}
SinkPartial(entries) ==
    [kind |-> "partial",
     error |-> [name |-> "PartialFailureError", message |-> "A failure occurred during this request.",
                fields |-> NoFields, hasErrors |-> TRUE, entries |-> entries]]

\* insert() rejected with an API error whose errors array holds flat
\* {reason, message} objects (no per-row errors list)
SinkApi(text, reason) ==
    [kind |-> "api",
     error |-> [name |-> "ApiError", message |-> text, fields |-> NoFields,
                hasErrors |-> TRUE,
                entries |-> <<[index |-> -1, reason |-> reason, nested |-> FALSE]>>]]

\* An entry of error.errors seen as an object of its own: it has no name and
\* no message; a nested entry has an errors list, a flat one has not.
EntryObj(e) ==
    [name |-> "undefined", message |-> "", fields |-> NoFields,
     hasErrors |-> e.nested, entries |-> <<>>]

\* error.errors || [error]
ErrorsOrSelf(error) ==
    IF error.hasErrors
    THEN [i \in 1..Len(error.entries) |-> EntryObj(error.entries[i])]
    ELSE <<error>>

WriteOk      == [threw |-> FALSE, success |-> TRUE, errors |-> <<>>, error |-> Err("none", "")]
WriteFail(es) == [threw |-> FALSE, success |-> FALSE, errors |-> es, error |-> Err("none", "")]
WriteThrew(e) == [threw |-> TRUE, success |-> FALSE, errors |-> <<>>, error |-> e]

\* The catch block logs err.errors[0]?.reason of the first three entries:
\* an entry with no errors list makes that a TypeError, thrown out of the catch.
writeBatchToBigQuery(events, outcome) ==
    IF outcome.kind = "ok" THEN WriteOk
    ELSE LET error == outcome.error
         IN  IF /\ error.hasErrors /\ Len(error.entries) > 0
                /\ \E i \in 1..Len(error.entries) : i <= 3 /\ ~error.entries[i].nested
             THEN WriteThrew(Err("TypeError", "Cannot read properties of undefined"))
             ELSE WriteFail(ErrorsOrSelf(error))

-----------------------------------------------------------------------------
(* batchProcessor.js: flushBatch after the write returned: the value each  *)
(* of the n pending responses is resolved with (a promise keeps the first  *)
(* value it is resolved with).                                             *)

AllResolve(n, r) == [i \in 1..n |-> r]

Ok204 == Res(TRUE, 204, FALSE, "undefined")

\* the catch block of flushBatch
Unexpected500 == Res(FALSE, 500, FALSE, "undefined")

\* failedRowDetails.get(index): a later entry for the same index replaces an earlier one
RowReason(entries, index) ==
    LET at == {i \in 1..Len(entries) : entries[i].index = index}
    IN  entries[CHOOSE i \in at : \A j \in at : j <= i].reason

PartialResolve(n, entries) ==
    [i \in 1..n |->
        IF \E j \in 1..Len(entries) : entries[j].index = i - 1
        THEN LET errorCategory == mapBqErrorReason(RowReason(entries, i - 1))
             IN  IF errorCategory.errorType = "duplicate" THEN Ok204
                 ELSE Fail(errorCategory)
        ELSE Ok204]

flushResults_TotalAccepted(n, writeResult) == AllResolve(n, Ok204)

flushResults(n, writeResult) ==
    IF writeResult.threw THEN AllResolve(n, Unexpected500)
    ELSE IF writeResult.success THEN AllResolve(n, Ok204)
    ELSE IF Len(writeResult.errors) = 0 THEN AllResolve(n, Unexpected500)
    ELSE LET bqError == writeResult.errors[1]
         IN  IF /\ bqError.name = "PartialFailureError"
                /\ bqError.hasErrors /\ Len(bqError.entries) > 0
             THEN IF \E j \in 1..Len(bqError.entries) : ~bqError.entries[j].nested
                  THEN AllResolve(n, Unexpected500)
                  ELSE PartialResolve(n, bqError.entries)
             ELSE AllResolve(n, Res(FALSE, 503, FALSE, "undefined"))

\* How many times flushBatch calls each item's resolve: once per
\* currentResponses.forEach that runs, and once more in the catch block when
\* an exception ends the try block.
Times(n, k) == [i \in 1..n |-> k]

flushResolveCalls_CatchAfterTotal(n, writeResult) ==
    IF writeResult.threw THEN Times(n, 1)
    ELSE IF writeResult.success THEN Times(n, 1)
    ELSE Times(n, 2)

flushResolveCalls(n, writeResult) ==
    IF writeResult.threw THEN Times(n, 1)
    ELSE IF writeResult.success THEN Times(n, 1)
    ELSE IF Len(writeResult.errors) = 0 THEN Times(n, 1)
    ELSE LET bqError == writeResult.errors[1]
         IN  IF /\ bqError.name = "PartialFailureError"
                /\ bqError.hasErrors /\ Len(bqError.entries) > 0
             THEN Times(n, 1)
             ELSE Times(n, 1)

-----------------------------------------------------------------------------
(* handler.js: processPubSubMessage *)

\* lines 75-85 and the catch block: single-message mode after the write returned
singleResult(writeResult) ==
    IF writeResult.threw THEN Fail(categorizeError(writeResult.error))
    ELSE IF writeResult.success THEN Ok204
    ELSE IF Len(writeResult.errors) = 0
         THEN Res(FALSE, 503, FALSE, "unexpected")
         ELSE Fail(categorizeError(writeResult.errors[1]))

Done(r)    == [kind |-> "done", result |-> r, key |-> "undefined"]
Queue(key) == [kind |-> "queue", result |-> NoResult, key |-> key]
Write(key) == [kind |-> "write", result |-> NoResult, key |-> key]

\* lines 42-85 up to the first await: the request is answered at once (done),
\* queued for a batch, or written on its own.
processSync(message, rate, batchSize) ==
    IF message.shape \in {"no_message", "no_data"}
    THEN Done(Fail(categorizeError(Err("Error", "Invalid Pub/Sub message format"))))
    ELSE IF message.shape = "bad_json"
    THEN Done(Fail(categorizeError(Err("SyntaxError", "Unexpected token, is not valid JSON"))))
    ELSE LET validation == validateAndExtractKey(message.shape = "json_null",
                                                 message.envelope)
         IN  IF ~validation.isValid
             THEN Done(Fail(categorizeError(Err("Error", validation.errors[1].message))))
             ELSE IF ~evaluateSampling(validation.idempotencyKey, rate)
             THEN Done(SampledOut)
             ELSE IF batchSize > 1 THEN Queue(validation.idempotencyKey)
             ELSE Write(validation.idempotencyKey)

-----------------------------------------------------------------------------
(* The inputs: envelopes, Pub/Sub push requests, sink behaviours *)

VersionVals  == {"undefined", "n:0", "n:1"}
StringVals   == {"undefined", "s:", "s:x"}
OccurredVals == {"undefined", "s:", "s:not-a-date", "s:2025-08-28T12:00:00Z"}
KeyVals      == {"undefined", "null", "s:", "s:k1", "s:k2"}

Payloads ==
    {[js |-> j, call_id |-> "undefined", message_id |-> "undefined"] :
        j \in {"undefined", "null"}}
    \cup [js : {"object"}, call_id : KeyVals, message_id : KeyVals]

Envelopes ==
    [envelope_version : VersionVals, event_type : StringVals,
     schema_version : VersionVals, tenant_id : StringVals,
     occurred_at : OccurredVals, trace_id : KeyVals, payload : Payloads]

ValidEnvelope ==
    [envelope_version |-> "n:1", event_type |-> "s:x", schema_version |-> "n:1",
     tenant_id |-> "s:x", occurred_at |-> "s:2025-08-28T12:00:00Z",
     trace_id |-> "undefined",
     payload |-> [js |-> "object", call_id |-> "s:k1", message_id |-> "undefined"]]

\* The envelopes the service is driven with
ServiceEnvelopes ==
    { ValidEnvelope,
      [ValidEnvelope EXCEPT !.payload.call_id = "undefined", !.payload.message_id = "s:k2"],
      [ValidEnvelope EXCEPT !.tenant_id = "undefined"],
      [ValidEnvelope EXCEPT !.occurred_at = "s:not-a-date"],
      [ValidEnvelope EXCEPT !.payload.call_id = "undefined"] }

\* req.body of a POST /pubsub: a body with no message, a message with no data,
\* data that is not JSON, data that is the JSON null, or an envelope
Requests ==
    {[shape |-> sh, envelope |-> ValidEnvelope] :
        sh \in {"no_message", "no_data", "bad_json", "json_null"}}
    \cup {[shape |-> "envelope", envelope |-> e] : e \in ServiceEnvelopes}

\* Messages of an insert() that failed as a whole: the service is down; the
\* HTTP client could not parse the response body ("invalid json response body at ...")
SinkMessages == {"BigQuery is temporarily unavailable", "invalid json response body"}
SinkReasons  == {"duplicate", "invalid", "timeout"}
Reasons      == {"duplicate", "invalid", "timeout", "stopped", "quotaExceeded", "undefined"}

InsertIds(rowSet) == {r.insertId : r \in rowSet}

RECURSIVE EntriesOf(_, _, _)
\* the rejected rows of a verdict f (row index -> "accept" or a reason), by index
EntriesOf(f, i, n) ==
    IF i >= n THEN <<>>
    ELSE (IF f[i] = "accept" THEN <<>>
          ELSE <<[index |-> i, reason |-> f[i], nested |-> TRUE]>>)
         \o EntriesOf(f, i + 1, n)

\* The sink reports "duplicate" only for a row whose insertId it already holds
\* or has accepted earlier in the same call.
Verdicts(rows, table) ==
    LET n == Len(rows)
    IN  {f \in [0..(n - 1) -> SinkReasons \cup {"accept"}] :
            /\ \E i \in 0..(n - 1) : f[i] # "accept"
            /\ \A i \in 0..(n - 1) : f[i] = "duplicate" =>
                  \/ rows[i + 1].insertId \in InsertIds(table)
                  \/ \E j \in 0..(i - 1) :
                        f[j] = "accept" /\ rows[j + 1].insertId = rows[i + 1].insertId}

SinkOutcomes(rows, table) ==
    {SinkOk}
    \cup {SinkTotal(t) : t \in SinkMessages}
    \cup {SinkApi("Not found: Table", "notFound")}
    \cup {SinkPartial(EntriesOf(f, 0, Len(rows))) : f \in Verdicts(rows, table)}

\* What the sink reported for row i (0-based) of a call that ended with outcome
RowFate(outcome, i) ==
    CASE outcome.kind = "ok" -> "written"
      [] outcome.kind \in {"total", "api"} -> "failed"
      [] OTHER ->
           LET at == {j \in 1..Len(outcome.error.entries) :
                         outcome.error.entries[j].index = i}
           IN  IF at = {} THEN "written"
               ELSE IF \E j \in at : outcome.error.entries[j].reason = "duplicate"
                    THEN "duplicate" ELSE "rejected"

\* The sink's table after the call: it keeps one row per insertId.
SinkStore(table, rows, outcome) ==
    LET accepted == {i \in 1..Len(rows) : RowFate(outcome, i - 1) = "written"}
        first    == {i \in accepted :
                       /\ rows[i].insertId \notin InsertIds(table)
                       /\ \A j \in accepted :
                             rows[j].insertId = rows[i].insertId => i <= j}
    IN  table \cup {[insertId |-> rows[i].insertId, key |-> rows[i].key] : i \in first}

-----------------------------------------------------------------------------
(* The warn and error records of the logger. A record written for one event *)
(* (with idempotencyKey, tenant_id, event_type of that event as far as they *)
(* were derived) names it in `event`; a batch-level record has event 0 and  *)
(* names the events whose keys it samples.                                  *)

LogRecord(site, event, sampleKeys) ==
    [site |-> site, event |-> event, sampleKeys |-> sampleKeys]

\* handler.js, the catch block of processPubSubMessage: errorMetadata. A
\* result that resolved from queueForBatch is returned without passing here.
handlerLogs(d, r) ==
    IF r.success THEN {}
    ELSE {LogRecord(IF r.isTerminal THEN "handler:terminal" ELSE "handler:transient", d, {})}

\* bq.js, the catch block of writeBatchToBigQuery: sample_errors names the
\* keys of the first three listed rows, sample_keys those of the first three
\* events; when the catch block itself throws, nothing is logged
bqLogs(events, outcome) ==
    IF outcome.kind = "ok" \/ writeBatchToBigQuery(events, outcome).threw THEN {}
    ELSE LET error == outcome.error
         IN  IF error.hasErrors /\ Len(error.entries) > 0
             THEN {LogRecord("bq:partial", 0,
                      {events[error.entries[j].index + 1].d :
                          j \in {i \in 1..Len(error.entries) :
                                   /\ i <= 3
                                   /\ error.entries[i].index + 1 \in 1..Len(events)}})}
             ELSE {LogRecord("bq:failed", 0,
                      {events[i].d : i \in {j \in 1..Len(events) : j <= 3}})}

\* batchProcessor.js flushBatch: the records of its failure branches
flushLogs(writeResult) ==
    IF writeResult.threw THEN {LogRecord("flush:unexpected", 0, {})}
    ELSE IF writeResult.success THEN {}
    ELSE IF Len(writeResult.errors) = 0 THEN {LogRecord("flush:unexpected", 0, {})}
    ELSE LET bqError == writeResult.errors[1]
         IN  IF /\ bqError.name = "PartialFailureError"
                /\ bqError.hasErrors /\ Len(bqError.entries) > 0
             THEN {LogRecord("flush:partial", 0, {})}
                  \cup (IF \E j \in 1..Len(bqError.entries) : ~bqError.entries[j].nested
                        THEN {LogRecord("flush:unexpected", 0, {})} ELSE {})
             ELSE {LogRecord("flush:total", 0, {})}

-----------------------------------------------------------------------------
(* The service *)

Reqs == 1..MaxRequests

AuditRates == {0, 1, RateDen}

UnitIdle == uFn = "none" /\ uIn = "none" /\ uOut = "none"

\* the replay job was never run and nothing was dead-lettered
ReplayIdle ==
    /\ maxReplayAttempts = MaxAttemptsCfg
    /\ dlq = {}
    /\ mainTopic = {}
    /\ parkingLot = {}
    /\ republished = [m \in Msgs |-> 0]
    /\ nextId = [m \in Msgs |-> 1]
    /\ arrived = 0
    /\ pc = "stopped"
    /\ exitCode = "none"
    /\ pullCount = 0
    /\ capReported = FALSE
    /\ messages = <<>>
    /\ cursor = 1
    /\ successfulAckIds = <<>>
    /\ publishCalls = <<>>
    /\ ackCalls = <<>>
    /\ failures = 0

\* the service after start-up
SvcInit ==
    /\ maxBatchSize \in {1, MaxBatchCfg}
    /\ auditRate \in AuditRates
    /\ requests = <<>>
    /\ result = [d \in Reqs |-> NoResult]
    /\ httpStatus = [d \in Reqs |-> 0]
    /\ batchQueue = <<>>
    /\ pendingBatchResponses = <<>>
    /\ batchTimer = FALSE
    /\ timerScheduled = FALSE
    /\ timerArmedBy = 0
    /\ immediates = 0
    /\ resolveCalls = [d \in Reqs |-> 0]
    /\ sinkCalls = <<>>
    /\ stored = {}
    /\ fate = [d \in Reqs |-> "none"]
    /\ logs = {}
    /\ proc = "running"
    /\ awaited = 0

Init == SvcInit /\ UnitIdle /\ ReplayIdle

\* bigquery...insert(rows) is called and has not returned yet
SinkCall(events, responses, mode) ==
    [events |-> events, responses |-> responses, mode |-> mode, done |-> FALSE,
     outcome |-> SinkOk]

\* batchProcessor.js queueForBatch, called for request d
queueForBatch_TimerOnly(d, idempotencyKey) ==
    LET queue == Append(batchQueue, [d |-> d, idempotencyKey |-> idempotencyKey])
    IN  /\ batchQueue' = queue
        /\ pendingBatchResponses' = Append(pendingBatchResponses, d)
        /\ IF ~batchTimer /\ Len(queue) > 0
           THEN /\ batchTimer' = TRUE
                /\ timerScheduled' = TRUE
                /\ timerArmedBy' = d
                /\ UNCHANGED immediates
           ELSE UNCHANGED <<batchTimer, timerScheduled, timerArmedBy, immediates>>

queueForBatch_SizeOnly(d, idempotencyKey) ==
    LET queue == Append(batchQueue, [d |-> d, idempotencyKey |-> idempotencyKey])
    IN  /\ batchQueue' = queue
        /\ pendingBatchResponses' = Append(pendingBatchResponses, d)
        /\ IF Len(queue) >= maxBatchSize
           THEN /\ immediates' = immediates + 1
                /\ UNCHANGED <<batchTimer, timerScheduled, timerArmedBy>>
           ELSE UNCHANGED <<batchTimer, timerScheduled, timerArmedBy, immediates>>

queueForBatch(d, idempotencyKey) ==
    LET queue == Append(batchQueue, [d |-> d, idempotencyKey |-> idempotencyKey])
    IN  /\ batchQueue' = queue
        /\ pendingBatchResponses' = Append(pendingBatchResponses, d)
        /\ IF Len(queue) >= maxBatchSize
           THEN /\ immediates' = immediates + 1
                /\ UNCHANGED <<batchTimer, timerScheduled, timerArmedBy>>
           ELSE IF ~batchTimer /\ Len(queue) > 0
           THEN /\ batchTimer' = TRUE
                /\ timerScheduled' = TRUE
                /\ timerArmedBy' = d
                /\ UNCHANGED immediates
           ELSE UNCHANGED <<batchTimer, timerScheduled, timerArmedBy, immediates>>

\* handlePubSubRequest with processPubSubMessage up to its first await
Receive ==
    /\ proc # "exited"
    /\ Len(requests) < MaxRequests
    /\ \E req \in Requests :
         LET d == Len(requests) + 1
             p == processSync(req, auditRate, maxBatchSize)
         IN  /\ requests' = Append(requests, req)
             /\ logs' = IF p.kind = "done" THEN logs \cup handlerLogs(d, p.result) ELSE logs
             /\ IF p.kind = "done"
                THEN /\ result' = [result EXCEPT ![d] = p.result]
                     /\ httpStatus' = [httpStatus EXCEPT ![d] = p.result.statusCode]
                     /\ UNCHANGED <<batchQueue, pendingBatchResponses, batchTimer,
                                    timerScheduled, timerArmedBy, immediates, sinkCalls>>
                ELSE IF p.kind = "queue"
                THEN /\ queueForBatch(d, p.key)
                     /\ UNCHANGED <<result, httpStatus, sinkCalls>>
                ELSE /\ sinkCalls' = Append(sinkCalls,
                            SinkCall(<<[d |-> d, idempotencyKey |-> p.key]>>, <<d>>, "single"))
                     /\ UNCHANGED <<result, httpStatus, batchQueue, pendingBatchResponses,
                                    batchTimer, timerScheduled, timerArmedBy, immediates>>
    /\ UNCHANGED <<maxBatchSize, auditRate, resolveCalls, stored, fate, proc, awaited>>
    /\ UNCHANGED <<unitVars, replayVars>>

\* batchProcessor.js flushBatch up to its await: the open batch is handed to
\* the sink. scheduled: whether the timer is still scheduled when it runs.
flushBatch_KeepTimer(scheduled) ==
    IF Len(batchQueue) = 0
    THEN /\ timerScheduled' = scheduled
         /\ timerArmedBy' = IF scheduled THEN timerArmedBy ELSE 0
         /\ UNCHANGED <<batchQueue, pendingBatchResponses, batchTimer, sinkCalls>>
    ELSE /\ sinkCalls' = Append(sinkCalls,
                SinkCall(batchQueue, pendingBatchResponses, "batch"))
         /\ batchQueue' = <<>>
         /\ pendingBatchResponses' = <<>>
         /\ timerScheduled' = scheduled
         /\ timerArmedBy' = IF scheduled THEN timerArmedBy ELSE 0
         /\ UNCHANGED batchTimer

flushBatch_KeepQueue(scheduled) ==
    IF Len(batchQueue) = 0
    THEN /\ timerScheduled' = scheduled
         /\ timerArmedBy' = IF scheduled THEN timerArmedBy ELSE 0
         /\ UNCHANGED <<batchQueue, pendingBatchResponses, batchTimer, sinkCalls>>
    ELSE /\ sinkCalls' = Append(sinkCalls,
                SinkCall(batchQueue, pendingBatchResponses, "batch"))
         /\ batchTimer' = FALSE
         /\ timerScheduled' = IF batchTimer THEN FALSE ELSE scheduled
         /\ timerArmedBy' = IF batchTimer \/ ~scheduled THEN 0 ELSE timerArmedBy
         /\ UNCHANGED <<batchQueue, pendingBatchResponses>>

flushBatch_KeepResponses(scheduled) ==
    IF Len(batchQueue) = 0
    THEN /\ timerScheduled' = scheduled
         /\ timerArmedBy' = IF scheduled THEN timerArmedBy ELSE 0
         /\ UNCHANGED <<batchQueue, pendingBatchResponses, batchTimer, sinkCalls>>
    ELSE /\ sinkCalls' = Append(sinkCalls,
                SinkCall(batchQueue, pendingBatchResponses, "batch"))
         /\ batchQueue' = <<>>
         /\ batchTimer' = FALSE
         /\ timerScheduled' = IF batchTimer THEN FALSE ELSE scheduled
         /\ timerArmedBy' = IF batchTimer \/ ~scheduled THEN 0 ELSE timerArmedBy
         /\ UNCHANGED pendingBatchResponses

flushBatch_ForgetHandle(scheduled) ==
    IF Len(batchQueue) = 0
    THEN /\ timerScheduled' = scheduled
         /\ timerArmedBy' = IF scheduled THEN timerArmedBy ELSE 0
         /\ UNCHANGED <<batchQueue, pendingBatchResponses, batchTimer, sinkCalls>>
    ELSE /\ sinkCalls' = Append(sinkCalls,
                SinkCall(batchQueue, pendingBatchResponses, "batch"))
         /\ batchQueue' = <<>>
         /\ pendingBatchResponses' = <<>>
         /\ batchTimer' = FALSE
         /\ timerScheduled' = scheduled
         /\ timerArmedBy' = IF scheduled THEN timerArmedBy ELSE 0

flushBatch_NoEmptyCheck(scheduled) ==
    /\ sinkCalls' = Append(sinkCalls,
            SinkCall(batchQueue, pendingBatchResponses, "batch"))
    /\ batchQueue' = <<>>
    /\ pendingBatchResponses' = <<>>
    /\ batchTimer' = FALSE
    /\ timerScheduled' = IF batchTimer THEN FALSE ELSE scheduled
    /\ timerArmedBy' = IF batchTimer \/ ~scheduled THEN 0 ELSE timerArmedBy

flushBatch(scheduled) ==
    IF Len(batchQueue) = 0
    THEN /\ timerScheduled' = scheduled
         /\ timerArmedBy' = IF scheduled THEN timerArmedBy ELSE 0
         /\ UNCHANGED <<batchQueue, pendingBatchResponses, batchTimer, sinkCalls>>
    ELSE /\ sinkCalls' = Append(sinkCalls,
                SinkCall(batchQueue, pendingBatchResponses, "batch"))
         /\ batchQueue' = <<>>
         /\ pendingBatchResponses' = <<>>
         /\ batchTimer' = FALSE
         /\ timerScheduled' = IF batchTimer THEN FALSE ELSE scheduled
         /\ timerArmedBy' = IF batchTimer \/ ~scheduled THEN 0 ELSE timerArmedBy

\* a setImmediate(flushBatch) callback runs
RunImmediate ==
    /\ proc # "exited"
    /\ immediates > 0
    /\ immediates' = immediates - 1
    /\ flushBatch(timerScheduled)
    /\ UNCHANGED <<maxBatchSize, auditRate, requests, result, httpStatus, resolveCalls,
                   stored, fate, logs, proc, awaited>>
    /\ UNCHANGED <<unitVars, replayVars>>

\* The setTimeout(flushBatch, MAX_BATCH_WAIT_MS) callback runs. setImmediate
\* callbacks set by a request handler run in the check phase of the same loop
\* iteration, before the timers phase of the next one.
TimerFires ==
    /\ proc # "exited"
    /\ timerScheduled
    /\ immediates = 0
    /\ flushBatch(FALSE)
    /\ UNCHANGED <<maxBatchSize, auditRate, requests, result, httpStatus, resolveCalls,
                   stored, fate, logs, immediates, proc, awaited>>
    /\ UNCHANGED <<unitVars, replayVars>>

\* batchProcessor.js flushPendingBatch up to its await: with an empty queue it
\* returns at once
flushPendingBatch ==
    IF Len(batchQueue) > 0
    THEN flushBatch(timerScheduled)
    ELSE UNCHANGED <<batchQueue, pendingBatchResponses, batchTimer, timerScheduled,
                     timerArmedBy, sinkCalls>>

\* app.js, the SIGTERM handler: await flushPendingBatch(), then
\* process.exit(0). With a non-empty queue the handler waits for the write its
\* flush started; with an empty queue nothing is awaited and the process
\* exits in the same turn of the event loop.
Sigterm ==
    /\ proc = "running"
    /\ flushPendingBatch
    /\ IF Len(batchQueue) > 0
       THEN proc' = "stopping" /\ awaited' = Len(sinkCalls) + 1
       ELSE proc' = "exited" /\ awaited' = 0
    /\ UNCHANGED <<maxBatchSize, auditRate, requests, result, httpStatus, resolveCalls,
                   stored, fate, logs, immediates>>
    /\ UNCHANGED <<unitVars, replayVars>>

\* The insert call c returns; writeBatchToBigQuery returns to its caller, which
\* resolves the waiting requests, and handlePubSubRequest sends their responses.
\* When c is the write the SIGTERM handler awaits, the handler goes on to
\* process.exit(0).
SinkReturns ==
    \E c \in 1..Len(sinkCalls) :
      /\ proc # "exited"
      /\ ~sinkCalls[c].done
      /\ proc' = IF proc = "stopping" /\ c = awaited THEN "exited" ELSE proc
      /\ awaited' = IF proc = "stopping" /\ c = awaited THEN 0 ELSE awaited
      /\ LET call == sinkCalls[c]
             rows == InsertRows(call.events)
         IN  \E outcome \in SinkOutcomes(rows, stored) :
               LET writeResult == writeBatchToBigQuery(call.events, outcome)
                   n           == Len(call.responses)
                   results     == IF call.mode = "batch"
                                  THEN flushResults(n, writeResult)
                                  ELSE <<singleResult(writeResult)>>
                   At(d)       == CHOOSE i \in 1..n : call.responses[i] = d
                   Resolved(d) == /\ \E i \in 1..n : call.responses[i] = d
                                  /\ result[d] = NoResult
               IN  /\ stored' = SinkStore(stored, rows, outcome)
                   /\ fate' = [d \in Reqs |->
                                 IF \E i \in 1..Len(rows) : rows[i].d = d
                                 THEN RowFate(outcome,
                                        (CHOOSE i \in 1..Len(rows) : rows[i].d = d) - 1)
                                 ELSE fate[d]]
                   /\ result' = [d \in Reqs |->
                                   IF Resolved(d) THEN results[At(d)] ELSE result[d]]
                   /\ httpStatus' = [d \in Reqs |->
                                       IF Resolved(d) THEN results[At(d)].statusCode
                                       ELSE httpStatus[d]]
                   /\ resolveCalls' = [d \in Reqs |->
                          IF call.mode = "batch" /\ \E i \in 1..n : call.responses[i] = d
                          THEN resolveCalls[d] + flushResolveCalls(n, writeResult)[At(d)]
                          ELSE resolveCalls[d]]
                   /\ logs' = logs \cup bqLogs(call.events, outcome)
                               \cup (IF call.mode = "batch"
                                     THEN flushLogs(writeResult)
                                     ELSE handlerLogs(call.responses[1], results[1]))
                   /\ sinkCalls' = [sinkCalls EXCEPT ![c].done = TRUE,
                                                       ![c].outcome = outcome]
      /\ UNCHANGED <<maxBatchSize, auditRate, requests, batchQueue, pendingBatchResponses,
                     batchTimer, timerScheduled, timerArmedBy, immediates>>
      /\ UNCHANGED <<unitVars, replayVars>>

\* the steps of a process that is not told to stop
NextRunning == Receive \/ RunImmediate \/ TimerFires \/ SinkReturns

Next == NextRunning \/ Sigterm

Spec == Init /\ [][Next]_vars

\* A process that is not terminated: the event loop runs every pending
\* setImmediate callback and every expired timer, and every insert call
\* returns. Nothing obliges a request to arrive.
SpecLive ==
    /\ Init
    /\ [][NextRunning]_vars
    /\ WF_vars(RunImmediate)
    /\ WF_vars(TimerFires)
    /\ WF_vars(SinkReturns)

-----------------------------------------------------------------------------
(* One direct call of an exported pure function, over all inputs *)

SampleRates == (0 - 1)..(RateDen + 1)

UnitInit ==
    /\ Init
    /\ maxBatchSize = 1
    /\ auditRate = RateDen

CallValidateEnvelope ==
    /\ uFn = "none"
    /\ \E e \in Envelopes :
         uFn' = "validateEnvelope" /\ uIn' = e /\ uOut' = validateEnvelope(e)
    /\ UNCHANGED <<svcVars, replayVars>>

CallComputeIdempotencyKey ==
    /\ uFn = "none"
    /\ \E e \in Envelopes :
         uFn' = "computeIdempotencyKey" /\ uIn' = e /\ uOut' = computeIdempotencyKey(e)
    /\ UNCHANGED <<svcVars, replayVars>>

CallMapBqErrorReason ==
    /\ uFn = "none"
    /\ \E r \in Reasons :
         uFn' = "mapBqErrorReason" /\ uIn' = r /\ uOut' = mapBqErrorReason(r)
    /\ UNCHANGED <<svcVars, replayVars>>

CallShouldSample ==
    /\ uFn = "none"
    /\ \E k \in SampleKeys, r \in SampleRates :
         /\ uFn' = "shouldSample"
         /\ uIn' = [key |-> k, rate |-> r]
         /\ uOut' = shouldSample(k, r)
    /\ UNCHANGED <<svcVars, replayVars>>

-----------------------------------------------------------------------------
(* index.js: the dead-letter replay job *)

\* decimal strings, as Number.prototype.toString writes and parseInt reads them
Decimals == <<"0", "1", "2", "3", "4", "5", "6", "7", "8", "9">>

\* the number NaN, written as an integer no count of the model reaches
NaN == -99

\* a + b, a >= b and a > b of JavaScript numbers
Plus(a, b) == IF a = NaN \/ b = NaN THEN NaN ELSE a + b
Geq(a, b)  == a # NaN /\ b # NaN /\ a >= b
Gt(a, b)   == a # NaN /\ b # NaN /\ a > b

\* Number.prototype.toString
ToString(n) ==
    IF n = NaN THEN "NaN"
    ELSE IF n = -1 THEN "-1"
    ELSE Decimals[n + 1]

\* parseInt: the leading integer of the string, NaN when there is none
ParseInt(s) ==
    IF \E i \in 1..Len(Decimals) : Decimals[i] = s
    THEN (CHOOSE i \in 1..Len(Decimals) : Decimals[i] = s) - 1
    ELSE IF s = "-1" THEN -1
    ELSE IF s = "2x" THEN 2
    ELSE NaN

\* the attributes of a message the model follows; "absent": not set.
\* googclient: some attribute with the prefix googclient_;
\* originalMessageId: x-original-message-id (<<>>: not set)
NoAttributes ==
    [replayAttempts |-> "absent", parkedReason |-> "absent",
     finalAttemptCount |-> "absent", googclient |-> "absent",
     originalMessageId |-> <<>>]

\* message.messageId || 'unknown'
Unknown == <<0, 0>>

\* parseInt(message.attributes?.['x-replay-attempts'] || '0')
currentAttemptsOf(message) ==
    ParseInt(IF message.attributes.replayAttempts \in {"absent", ""}
             THEN "0" ELSE message.attributes.replayAttempts)

reconstructMessage_KeepCount(receivedMessage, isParking) ==
    LET message == receivedMessage.message
        newAttemptCount == currentAttemptsOf(message)
        copied == [message.attributes EXCEPT
                      !.replayAttempts = "absent",
                      !.googclient = "absent",
                      !.originalMessageId =
                          IF message.messageId = <<>> THEN Unknown ELSE message.messageId]
    IN  [id |-> message.id, messageId |-> <<>>,
         attributes |->
            IF isParking
            THEN [copied EXCEPT !.parkedReason = "set",
                                !.finalAttemptCount = ToString(newAttemptCount)]
            ELSE [copied EXCEPT !.replayAttempts = ToString(newAttemptCount)]]

reconstructMessage_KeepInternal(receivedMessage, isParking) ==
    LET message == receivedMessage.message
        newAttemptCount == Plus(currentAttemptsOf(message), 1)
        copied == [message.attributes EXCEPT
                      !.replayAttempts = "absent",
                      !.originalMessageId =
                          IF message.messageId = <<>> THEN Unknown ELSE message.messageId]
    IN  [id |-> message.id, messageId |-> <<>>,
         attributes |->
            IF isParking
            THEN [copied EXCEPT !.parkedReason = "set",
                                !.finalAttemptCount = ToString(newAttemptCount)]
            ELSE [copied EXCEPT !.replayAttempts = ToString(newAttemptCount)]]

reconstructMessage(receivedMessage, isParking) ==
    LET message == receivedMessage.message
        newAttemptCount == Plus(currentAttemptsOf(message), 1)
        copied == [message.attributes EXCEPT
                      !.replayAttempts = "absent",
                      !.googclient = "absent",
                      !.originalMessageId =
                          IF message.messageId = <<>> THEN Unknown ELSE message.messageId]
    IN  [id |-> message.id, messageId |-> <<>>,
         attributes |->
            IF isParking
            THEN [copied EXCEPT !.parkedReason = "set",
                                !.finalAttemptCount = ToString(newAttemptCount)]
            ELSE [copied EXCEPT !.replayAttempts = ToString(newAttemptCount)]]

\* lines 76-92: where a pulled message goes
shouldPark_Above(receivedMessage) ==
    Gt(currentAttemptsOf(receivedMessage.message), maxReplayAttempts)

shouldPark(receivedMessage) ==
    Geq(currentAttemptsOf(receivedMessage.message), maxReplayAttempts)

\* lines 76-92 for one pulled message: the destination and the message published
replayStep(receivedMessage) ==
    LET isParking == shouldPark(receivedMessage)
    IN  [isParking |-> isParking,
         message |-> reconstructMessage(receivedMessage, isParking)]

\* values of x-replay-attempts on a pulled message
AttemptValues == {"absent", "", "0", "1", "2", "3", "abc", "NaN", "-1", "2x"}

CallReplayStep ==
    /\ uFn = "none"
    /\ \E v \in AttemptValues, g \in {"absent", "set"} :
         LET receivedMessage ==
                 [ackId |-> <<1, 0>>,
                  message |-> [id |-> 1, messageId |-> <<1, 0>>,
                               attributes |-> [NoAttributes EXCEPT !.replayAttempts = v,
                                                                   !.googclient = g]]]
         IN  /\ uFn' = "replayStep"
             /\ uIn' = receivedMessage
             /\ uOut' = replayStep(receivedMessage)
    /\ UNCHANGED <<svcVars, replayVars>>

NextUnit ==
    CallValidateEnvelope \/ CallComputeIdempotencyKey \/ CallMapBqErrorReason
    \/ CallShouldSample \/ CallReplayStep

SpecUnit == UnitInit /\ [][NextUnit]_vars

\* a message held by the dead-letter subscription: leased while a pull has
\* delivered it and its acknowledgement deadline has not passed
Held(ackId, message, leased) == [ackId |-> ackId, message |-> message, leased |-> leased]

Available == {h \in dlq : ~h.leased}

\* message ids are pairs <<event, number>>; the token of a delivery is written
\* as the id of the message it delivers
Before(a, b) == a[1] < b[1] \/ (a[1] = b[1] /\ a[2] <= b[2])

\* the deliveries of one pull response, in the order of their tokens
RECURSIVE Ordered(_)
Ordered(S) ==
    IF S = {} THEN <<>>
    ELSE LET h == CHOOSE x \in S : \A y \in S : Before(x.ackId, y.ackId)
         IN  <<[ackId |-> h.ackId, message |-> h.message]>> \o Ordered(S \ {h})

ReplayInit ==
    /\ SvcInit /\ maxBatchSize = 1 /\ auditRate = RateDen
    /\ UnitIdle
    /\ maxReplayAttempts = MaxAttemptsCfg
    /\ dlq = {}
    /\ mainTopic = {}
    /\ parkingLot = {}
    /\ republished = [m \in Msgs |-> 0]
    /\ nextId = [m \in Msgs |-> 1]
    /\ arrived = 0
    /\ pc = "stopped"
    /\ exitCode = "none"
    /\ pullCount = 0
    /\ capReported = FALSE
    /\ messages = <<>>
    /\ cursor = 1
    /\ successfulAckIds = <<>>
    /\ publishCalls = <<>>
    /\ ackCalls = <<>>
    /\ failures = 0

jobVars == <<pc, exitCode, pullCount, capReported, messages, cursor,
             successfulAckIds, publishCalls, ackCalls>>

\* an event fails ingestion for the first time and the transport dead-letters
\* it, with or without a googclient_ attribute
Arrive ==
    /\ arrived < MaxMessages
    /\ arrived' = arrived + 1
    /\ \E g \in {"absent", "set"} :
         dlq' = dlq \cup {Held(<<arrived + 1, 0>>,
                              [id |-> arrived + 1, messageId |-> <<arrived + 1, 0>>,
                               attributes |-> [NoAttributes EXCEPT !.googclient = g]],
                              FALSE)}
    /\ UNCHANGED <<maxReplayAttempts, mainTopic, parkingLot, republished, nextId,
                   failures>>
    /\ UNCHANGED jobVars
    /\ UNCHANGED <<svcVars, unitVars>>

\* a replayed message fails ingestion again and is dead-lettered, attributes intact
DeadLetter ==
    /\ \E message \in mainTopic :
         /\ mainTopic' = mainTopic \ {message}
         /\ dlq' = dlq \cup {Held(message.messageId, message, FALSE)}
    /\ UNCHANGED <<maxReplayAttempts, parkingLot, republished, nextId, arrived, failures>>
    /\ UNCHANGED jobVars
    /\ UNCHANGED <<svcVars, unitVars>>

\* the acknowledgement deadline of a delivery passes: the subscription will
\* deliver the message again. Deliveries of the pull being processed are
\* taken to be within their deadline.
LeaseExpires ==
    /\ \E h \in dlq :
         /\ h.leased
         /\ pc = "stopped" \/ \A i \in 1..Len(messages) : messages[i].ackId # h.ackId
         /\ dlq' = (dlq \ {h}) \cup {Held(h.ackId, h.message, FALSE)}
    /\ UNCHANGED <<maxReplayAttempts, mainTopic, parkingLot, republished, nextId,
                   arrived, failures>>
    /\ UNCHANGED jobVars
    /\ UNCHANGED <<svcVars, unitVars>>

\* the replay job is started (a new process)
StartRun ==
    /\ pc = "stopped"
    /\ pc' = "pull"
    /\ exitCode' = "none"
    /\ pullCount' = 0
    /\ capReported' = FALSE
    /\ messages' = <<>>
    /\ cursor' = 1
    /\ successfulAckIds' = <<>>
    /\ publishCalls' = <<>>
    /\ ackCalls' = <<>>
    /\ UNCHANGED <<maxReplayAttempts, dlq, mainTopic, parkingLot, republished, nextId,
                   arrived, failures>>
    /\ UNCHANGED <<svcVars, unitVars>>

LoopEnd_NoCap(shouldContinue) ==
    /\ pullCount' = pullCount + 1
    /\ IF shouldContinue
       THEN pc' = "pull" /\ UNCHANGED <<exitCode, capReported>>
       ELSE /\ pc' = "stopped"
            /\ exitCode' = "0"
            /\ capReported' = (pullCount + 1 >= MaxPullsCfg)

\* main, after pullAndProcessBatch returned shouldContinue: pullCount++, the
\* break on an empty pull, the loop condition and the warning after the loop
LoopEnd(shouldContinue) ==
    /\ pullCount' = pullCount + 1
    /\ IF shouldContinue /\ pullCount + 1 < MaxPullsCfg
       THEN pc' = "pull" /\ UNCHANGED <<exitCode, capReported>>
       ELSE /\ pc' = "stopped"
            /\ exitCode' = "0"
            /\ capReported' = (pullCount + 1 >= MaxPullsCfg)

\* pullAndProcessBatch, lines 60-72: the pull call fails (main rejects and the
\* process exits 1), returns no message, or returns up to BATCH_SIZE messages
Pull ==
    /\ pc = "pull"
    /\ \/ /\ failures < MaxFailures
          /\ failures' = failures + 1
          /\ pc' = "stopped" /\ exitCode' = "1"
          /\ UNCHANGED <<dlq, pullCount, capReported, messages, cursor,
                         successfulAckIds, publishCalls, ackCalls>>
       \/ /\ Available = {}
          /\ LoopEnd(FALSE)
          /\ messages' = <<>>
          /\ cursor' = 1
          /\ successfulAckIds' = <<>>
          /\ publishCalls' = <<>>
          /\ ackCalls' = <<>>
          /\ UNCHANGED <<dlq, failures>>
       \/ \E S \in SUBSET Available :
            /\ S # {} /\ Cardinality(S) <= BatchSizeCfg
            /\ dlq' = (dlq \ S) \cup {Held(h.ackId, h.message, TRUE) : h \in S}
            /\ messages' = Ordered(S)
            /\ cursor' = 1
            /\ successfulAckIds' = <<>>
            /\ publishCalls' = <<>>
            /\ ackCalls' = <<>>
            /\ pc' = "loop"
            /\ UNCHANGED <<exitCode, pullCount, capReported, failures>>
    /\ UNCHANGED <<maxReplayAttempts, mainTopic, parkingLot, republished, nextId, arrived>>
    /\ UNCHANGED <<svcVars, unitVars>>

\* lines 96-106: the token is pushed after the awaited publish; a publish that
\* throws skips the push and is logged by the catch
afterPublish_Always(ackIds, ackId, ok) == Append(ackIds, ackId)

afterPublish(ackIds, ackId, ok) == IF ok THEN Append(ackIds, ackId) ELSE ackIds

\* one iteration of the for loop, lines 74-107: the message is reconstructed
\* for its destination and published; a failed publish is caught and logged
Process ==
    /\ pc = "loop"
    /\ LET receivedMessage  == messages[cursor]
           isParking        == shouldPark(receivedMessage)
           messageToPublish == [reconstructMessage(receivedMessage, isParking)
                                   EXCEPT !.messageId =
                                       <<receivedMessage.message.id,
                                         nextId[receivedMessage.message.id]>>]
           Published(ok) == [ackId |-> receivedMessage.ackId,
                             topic |-> IF isParking THEN "parking" ELSE "main",
                             ok |-> ok]
       IN  \/ /\ nextId' = [nextId EXCEPT ![receivedMessage.message.id] = @ + 1]
              /\ IF isParking
                 THEN /\ parkingLot' = parkingLot \cup {messageToPublish}
                      /\ UNCHANGED <<mainTopic, republished>>
                 ELSE /\ mainTopic' = mainTopic \cup {messageToPublish}
                      /\ republished' = [republished EXCEPT
                            ![receivedMessage.message.id] = @ + 1]
                      /\ UNCHANGED parkingLot
              /\ successfulAckIds' =
                    afterPublish(successfulAckIds, receivedMessage.ackId, TRUE)
              /\ publishCalls' = Append(publishCalls, Published(TRUE))
              /\ UNCHANGED failures
           \/ /\ failures < MaxFailures
              /\ failures' = failures + 1
              /\ publishCalls' = Append(publishCalls, Published(FALSE))
              /\ successfulAckIds' =
                    afterPublish(successfulAckIds, receivedMessage.ackId, FALSE)
              /\ UNCHANGED <<mainTopic, parkingLot, republished, nextId>>
    /\ cursor' = cursor + 1
    /\ pc' = IF cursor + 1 > Len(messages) THEN "ack" ELSE "loop"
    /\ UNCHANGED <<maxReplayAttempts, dlq, arrived, exitCode, pullCount, capReported,
                   messages, ackCalls>>
    /\ UNCHANGED <<svcVars, unitVars>>

\* lines 109-115 and the rest of main's loop body: one acknowledge call for
\* the pull when a publish succeeded; a failed call rejects main (exit 1)
AckCall(ok) == [ackIds |-> SeqToSet(successfulAckIds), ok |-> ok]

Acknowledge ==
    /\ pc = "ack"
    /\ \/ /\ Len(successfulAckIds) > 0
          /\ dlq' = {h \in dlq : h.ackId \notin SeqToSet(successfulAckIds)}
          /\ ackCalls' = Append(ackCalls, AckCall(TRUE))
          /\ LoopEnd(TRUE)
          /\ UNCHANGED failures
       \/ /\ Len(successfulAckIds) > 0
          /\ failures < MaxFailures
          /\ failures' = failures + 1
          /\ ackCalls' = Append(ackCalls, AckCall(FALSE))
          /\ pc' = "stopped" /\ exitCode' = "1"
          /\ UNCHANGED <<dlq, pullCount, capReported>>
       \/ /\ Len(successfulAckIds) = 0
          /\ LoopEnd(TRUE)
          /\ UNCHANGED <<dlq, ackCalls, failures>>
    /\ UNCHANGED <<maxReplayAttempts, mainTopic, parkingLot, republished, nextId, arrived,
                   messages, cursor, successfulAckIds, publishCalls>>
    /\ UNCHANGED <<svcVars, unitVars>>

NextReplay ==
    Arrive \/ DeadLetter \/ LeaseExpires \/ StartRun \/ Pull \/ Process \/ Acknowledge

SpecReplay == ReplayInit /\ [][NextReplay]_vars

-----------------------------------------------------------------------------
(* Claims *)

Received == 1..Len(requests)

\* the idempotency key request d derives
KeyOf(d) == computeIdempotencyKey(requests[d].envelope).value

Submitted(d) ==
    \E c \in 1..Len(sinkCalls) : \E i \in 1..Len(sinkCalls[c].events) :
        sinkCalls[c].events[i].d = d

RowsStoredFor(k) == {r \in stored : r.key = k}

\* C1: a request is answered 204 only if its event was sampled out or the sink
\* reported its row as written (or as a duplicate); a request whose row write
\* failed or whose row was never submitted is not answered 204.
C1_Accepted204OnlyIfWrittenOrSampledOut ==
    \A d \in Received :
        httpStatus[d] = 204 =>
            \/ result[d].sampled = "false" /\ ~Submitted(d)
            \/ Submitted(d) /\ fate[d] \in {"written", "duplicate"}

C1_Witness ==
    /\ maxBatchSize > 1
    /\ \E d \in Received : httpStatus[d] = 204 /\ fate[d] = "written"
    /\ \E d \in Received : httpStatus[d] = 204 /\ result[d].sampled = "false"
    /\ \E d \in Received : fate[d] = "failed" /\ httpStatus[d] = 503

\* C2: every submitted row carries insertId = the key its request derives, and
\* the deduplicating sink never holds more than one row for a key, and holds
\* exactly one once a write of that key succeeded.
C2_OneStoredRowPerKey ==
    /\ \A c \in 1..Len(sinkCalls) : \A i \in 1..Len(sinkCalls[c].events) :
          InsertRows(sinkCalls[c].events)[i].insertId = KeyOf(sinkCalls[c].events[i].d)
    /\ \A k \in KeyVals :
          /\ Cardinality(RowsStoredFor(k)) <= 1
          /\ (\E d \in Received : Submitted(d) /\ KeyOf(d) = k /\ fate[d] = "written")
                => Cardinality(RowsStoredFor(k)) = 1

\* the same envelope delivered twice, written by two different sink calls
C2_Witness ==
    \E d1 \in Received, d2 \in Received :
        /\ d1 < d2
        /\ requests[d1] = requests[d2]
        /\ fate[d1] = "written" /\ fate[d2] = "written"
        /\ \E c1 \in 1..Len(sinkCalls), c2 \in 1..Len(sinkCalls) :
              /\ c1 # c2
              /\ sinkCalls[c1].responses = <<d1>>
              /\ d2 \in SeqToSet(sinkCalls[c2].responses)
        /\ Cardinality(RowsStoredFor(KeyOf(d1))) = 1

\* what validateAndExtractKey says of the data of request d
ValidationOf(d) ==
    validateAndExtractKey(requests[d].shape = "json_null", requests[d].envelope)

Parsed(d) == requests[d].shape \in {"json_null", "envelope"}

\* C3: every request whose parsed envelope fails validation is answered 400,
\* never 503, and no row is submitted for it, at every sampling rate.
C3_ValidationFailureIs400 ==
    \A d \in Received :
        (Parsed(d) /\ ~ValidationOf(d).isValid) =>
            httpStatus[d] = 400 /\ ~Submitted(d)

\* C4: a request with no message, a message with no data, or data that is not
\* JSON is answered 422, never 503.
C4_MalformedIs422 ==
    \A d \in Received :
        requests[d].shape \in {"no_message", "no_data", "bad_json"} =>
            httpStatus[d] = 422

\* C5: every response status is one of 204, 400, 422, 503.
C5_StatusInContract ==
    \A d \in Received : httpStatus[d] \in {0, 204, 400, 422, 503}

\* C6: when the insert call fails as a whole (an error with no row-level detail),
\* every item of that write resolves success=false, 503, not terminal.
C6_TotalFailureIsTransient ==
    \A c \in 1..Len(sinkCalls) :
        (sinkCalls[c].done /\ sinkCalls[c].outcome.kind \in {"total", "api"}) =>
            \A i \in 1..Len(sinkCalls[c].responses) :
                LET r == result[sinkCalls[c].responses[i]]
                IN  ~r.success /\ r.statusCode = 503 /\ ~r.isTerminal

\* the status C7 gives a row from what the sink reported for it
C7_Expected(outcome, i) ==
    LET at == {j \in 1..Len(outcome.error.entries) : outcome.error.entries[j].index = i}
    IN  IF at = {} THEN 204
        ELSE LET reason == outcome.error.entries[CHOOSE j \in at : TRUE].reason
             IN  CASE reason = "duplicate" -> 204
                   [] reason = "invalid"   -> 422
                   [] OTHER                -> 503

\* C7: after a partial failure of a flushed batch, an unlisted row resolves 204,
\* a "duplicate" row 204, an "invalid" row terminal 422, any other listed row 503.
C7_PartialFailurePerRow ==
    \A c \in 1..Len(sinkCalls) :
        (/\ sinkCalls[c].done /\ sinkCalls[c].mode = "batch"
         /\ sinkCalls[c].outcome.kind = "partial") =>
            \A i \in 1..Len(sinkCalls[c].responses) :
                result[sinkCalls[c].responses[i]].statusCode
                    = C7_Expected(sinkCalls[c].outcome, i - 1)

\* C8: mapBqErrorReason classifies every reason: "duplicate" as 204, "invalid"
\* as terminal 422, anything else (undefined included) as non-terminal 503.
C8_MapReasonTotal ==
    uFn = "mapBqErrorReason" =>
        /\ uOut.statusCode \in {204, 422, 503}
        /\ uIn = "duplicate" => uOut.statusCode = 204 /\ uOut.errorType = "duplicate"
        /\ uIn = "invalid" => uOut.statusCode = 422 /\ uOut.isTerminal
        /\ uIn \notin {"duplicate", "invalid"} =>
              /\ uOut.statusCode = 503 /\ ~uOut.isTerminal
              /\ uOut.errorType = "transient_error"

C8_Witness ==
    uFn = "mapBqErrorReason" /\ uIn = "undefined" /\ uOut.statusCode = 503

\* a key field that is there and not empty
C9_Present(v) == v \notin {"undefined", "null", "s:"}

C10_Missing(v) == v \in {"undefined", "null", "s:"}

\* C10: validateEnvelope fails with 'Missing required fields' exactly when one of
\* the six required fields is missing, and names exactly the missing ones; a
\* present value such as the version number 0 is not reported missing.
C10_MissingFieldsExact ==
    uFn = "validateEnvelope" =>
        LET missing == {f \in SeqToSet(required) : C10_Missing(Get(uIn, f))}
        IN  /\ (uOut.threw /\ uOut.error.message = "Missing required fields")
                  <=> missing # {}
            /\ (uOut.threw /\ uOut.error.message = "Missing required fields")
                  => SeqToSet(uOut.error.fields) = missing

\* C11: for an envelope with all six required fields present, validateEnvelope
\* fails with 'occurred_at must be a valid ISO date string' exactly when
\* occurred_at does not parse as a date; with a field missing the error is the
\* missing-fields one, never the timestamp one.
C11_TimestampErrorIffUnparseable ==
    uFn = "validateEnvelope" =>
        LET missing == {f \in SeqToSet(required) : C10_Missing(Get(uIn, f))}
            timestampError ==
                /\ uOut.threw
                /\ uOut.error.message = "occurred_at must be a valid ISO date string"
        IN  /\ missing = {} => (timestampError <=> DateParseIsNaN(uIn.occurred_at))
            /\ missing # {} => ~timestampError

\* C12: shouldSample(key, rate) is true for every rate >= 1.0 and false for
\* every rate <= 0.0, whatever the key.
C12_RateBoundsIgnoreKey ==
    uFn = "shouldSample" =>
        /\ uIn.rate >= RateDen => uOut = TRUE
        /\ uIn.rate <= 0 => uOut = FALSE

\* the key at the top of the digest range, kept at rate 1.0
C12_Witness ==
    /\ uFn = "shouldSample"
    /\ uIn.key = "s:digest-max"
    /\ uIn.rate = RateDen
    /\ uOut = TRUE

\* request d carries an envelope that passes validation
Valid(d) == Parsed(d) /\ ValidationOf(d).isValid

\* the sampling decision the service took for the valid request d was drop
Dropped(d) == result[d].sampled = "false"

Queued(d) == \E i \in 1..Len(batchQueue) : batchQueue[i].d = d

\* C14: a valid event the sampler drops is answered 204 and is never queued
\* nor submitted to the sink; every row queued or submitted belongs to a valid
\* event whose sampling decision was keep.
C14_DroppedNeverSubmitted ==
    \A d \in Received :
        /\ (Valid(d) /\ ~shouldSample(KeyOf(d), auditRate)) =>
              /\ httpStatus[d] = 204 /\ result[d].success /\ Dropped(d)
              /\ ~Queued(d) /\ ~Submitted(d)
        /\ (Queued(d) \/ Submitted(d)) =>
              Valid(d) /\ shouldSample(KeyOf(d), auditRate) /\ ~Dropped(d)

\* batching mode at rate 1/RateDen: a dropped k1 event answered 204 without a
\* row, and a kept k2 event whose row was submitted
C14_Witness ==
    /\ maxBatchSize > 1
    /\ auditRate = 1
    /\ \E d \in Received :
          Valid(d) /\ KeyOf(d) = "s:k1" /\ httpStatus[d] = 204 /\ ~Submitted(d)
    /\ \E d \in Received :
          Valid(d) /\ KeyOf(d) = "s:k2" /\ Submitted(d) /\ fate[d] = "written"

\* the step adds an item that brings the open batch to maxBatchSize or beyond
ReachesSize ==
    /\ maxBatchSize > 1
    /\ Len(batchQueue') = Len(batchQueue) + 1
    /\ Len(batchQueue') >= maxBatchSize

\* the step hands the whole open batch to the sink in one call
FlushesAll ==
    /\ sinkCalls' = Append(sinkCalls, SinkCall(batchQueue, pendingBatchResponses, "batch"))
    /\ batchQueue' = <<>>

\* C15: size trigger. The step that adds the n-th item (n = maxBatchSize > 1)
\* schedules a flush for the current loop iteration, whatever the timer; while
\* the batch is full such a flush stays pending, the timer callback does not
\* run before it, and when it runs on the full batch it writes the whole open
\* batch, those n items included.
C15_SizeTriggerFlushes ==
    /\ [](Len(batchQueue) >= maxBatchSize => immediates > 0)
    /\ [][/\ ReachesSize => immediates' = immediates + 1
          /\ TimerFires => Len(batchQueue) < maxBatchSize
          /\ (RunImmediate /\ Len(batchQueue) >= maxBatchSize) => FlushesAll]_vars

\* two items were added and flushed together while the timer set by the first
\* had not fired
C15_Witness ==
    /\ maxBatchSize = MaxBatchCfg
    /\ Len(requests) = MaxBatchCfg
    /\ Len(sinkCalls) = 1
    /\ Len(sinkCalls[1].events) = MaxBatchCfg
    /\ sinkCalls[1].mode = "batch"
    /\ immediates = 0
    /\ batchQueue = <<>>

C17_BatchWithinMaxSize ==
    \A c \in 1..Len(sinkCalls) :
        sinkCalls[c].mode = "batch" => Len(sinkCalls[c].events) <= maxBatchSize

\* request d was accepted by queueForBatch
Accepted(d) ==
    maxBatchSize > 1 /\ Valid(d) /\ evaluateSampling(KeyOf(d), auditRate)

\* where the item of request d is: position i of the open batch (<<0, i>>) or
\* position i of the batch written by sink call c (<<c, i>>)
PlacesOf(d) ==
    {<<0, i>> : i \in {j \in 1..Len(batchQueue) : batchQueue[j].d = d}}
    \cup UNION {{<<c, i>> : i \in {j \in 1..Len(sinkCalls[c].events) :
                                      sinkCalls[c].events[j].d = d}} :
                c \in {b \in 1..Len(sinkCalls) : sinkCalls[b].mode = "batch"}}

\* the step runs flushBatch: from a setImmediate callback, from the timer
\* callback or, through flushPendingBatch, from the SIGTERM handler
FlushRuns == RunImmediate \/ TimerFires \/ Sigterm

\* C18: every item accepted by queueForBatch is in exactly one place, the open
\* batch or one sink write call, and nothing else is in either; a flush moves
\* the whole open batch into one call, so a flushed item is in exactly one
\* write; a flush trigger that finds the batch already flushed writes nothing.
C18_ExactlyOneWrite ==
    /\ [](\A d \in Reqs :
            Cardinality(PlacesOf(d)) = IF d \in Received /\ Accepted(d) THEN 1 ELSE 0)
    /\ [][FlushRuns =>
            IF batchQueue = <<>> THEN sinkCalls' = sinkCalls ELSE FlushesAll]_vars

\* three items flushed by the first of two size triggers; the second trigger
\* ran on the empty queue and wrote nothing
C18_Witness ==
    /\ maxBatchSize = MaxBatchCfg
    /\ Len(requests) = MaxBatchCfg + 1
    /\ Len(sinkCalls) = 1
    /\ Len(sinkCalls[1].events) = MaxBatchCfg + 1
    /\ immediates = 0
    /\ batchQueue = <<>>

\* the batch write that request d's item was part of has returned, and
\* flushBatch has gone through its result mapping
FlushCompleted(d) ==
    \E c \in 1..Len(sinkCalls) :
        /\ sinkCalls[c].mode = "batch" /\ sinkCalls[c].done
        /\ \E i \in 1..Len(sinkCalls[c].responses) : sinkCalls[c].responses[i] = d

C20_AcceptedEventuallyResolved ==
    \A d \in Reqs :
        (d \in Received /\ Accepted(d))
            ~> (FlushCompleted(d) /\ resolveCalls[d] = 1 /\ httpStatus[d] # 0)

\* the first batch's write is still in flight while an item accepted after it
\* has been written by a second call and resolved
C20_Witness ==
    /\ Len(sinkCalls) >= 2
    /\ sinkCalls[1].mode = "batch" /\ ~sinkCalls[1].done
    /\ sinkCalls[2].mode = "batch" /\ sinkCalls[2].done
    /\ \A i \in 1..Len(sinkCalls[2].responses) :
          /\ resolveCalls[sinkCalls[2].responses[i]] = 1
          /\ httpStatus[sinkCalls[2].responses[i]] # 0

\* C21: the process has not exited while an item accepted into the accumulator
\* is still in the open batch or in a write that has not returned: at exit
\* every accepted item's write has completed and its promise is resolved.
C21_NoExitBeforeAcceptedResolved ==
    proc = "exited" =>
        \A d \in Received :
            Accepted(d) => (FlushCompleted(d) /\ resolveCalls[d] = 1)

\* ---- replay job: helpers of the claims ----

\* the attempt count a message carries, as the claims read it: an absent
\* x-replay-attempts counts as 0
AttemptsRead(message) ==
    IF message.attributes.replayAttempts = "absent" THEN 0
    ELSE ParseInt(message.attributes.replayAttempts)

\* the loop iteration at hand published its message
PublishSucceeded == Process /\ publishCalls'[cursor].ok

\* C22: a pulled message whose attempt count is below maxReplayAttempts is
\* republished to the ingestion topic carrying x-replay-attempts equal to the
\* value read plus one, an absent attribute reading as 0.
C22_RepublishIncrementsAttempts ==
    [][(PublishSucceeded /\ AttemptsRead(messages[cursor].message) < maxReplayAttempts)
        => \E m \in mainTopic' \ mainTopic :
              /\ m.id = messages[cursor].message.id
              /\ m.attributes.replayAttempts =
                    ToString(AttemptsRead(messages[cursor].message) + 1)]_vars

\* both cases were republished: an absent count became 1 and a count of 1 became 2
C22_Witness ==
    /\ \E h \in dlq : h.message.attributes.replayAttempts = "1"
    /\ \E m \in mainTopic : m.attributes.replayAttempts = "2"

\* the destinations a publish call of the loop iteration at hand delivered to
ReachedMain    == mainTopic' # mainTopic
ReachedParking == parkingLot' # parkingLot

\* C23: the publish of a pulled message is directed at the parking destination
\* if and only if its x-replay-attempts value is >= maxReplayAttempts, and at
\* the ingestion topic otherwise; one publish call is made per pulled message,
\* and a successful one delivers to that destination and not to the other.
C23_ParkIffBudgetUsed ==
    [][Process =>
        LET call   == publishCalls'[cursor]
            parked == AttemptsRead(messages[cursor].message) >= maxReplayAttempts
        IN  /\ Len(publishCalls') = Len(publishCalls) + 1
            /\ call.ackId = messages[cursor].ackId
            /\ (call.topic = "parking") <=> parked
            /\ (call.topic = "main") <=> ~parked
            /\ ReachedParking <=> (call.ok /\ parked)
            /\ ReachedMain <=> (call.ok /\ ~parked)]_vars

\* one pull republished a message carrying maxReplayAttempts - 1 and parked a
\* message carrying maxReplayAttempts
C23_Witness ==
    /\ pc = "ack"
    /\ \E i, j \in 1..Len(messages) :
          /\ AttemptsRead(messages[i].message) = maxReplayAttempts - 1
          /\ publishCalls[i].topic = "main" /\ publishCalls[i].ok
          /\ AttemptsRead(messages[j].message) = maxReplayAttempts
          /\ publishCalls[j].topic = "parking" /\ publishCalls[j].ok

\* the delivery tokens of the current pull, and those whose publish succeeded
PulledAckIds == {messages[i].ackId : i \in 1..Len(messages)}
PublishedOk == {publishCalls[i].ackId : i \in {j \in 1..Len(publishCalls) : publishCalls[j].ok}}

\* C24: for every pull, the acknowledged delivery tokens are exactly those of
\* the pull's messages whose publish succeeded; the one acknowledge call comes
\* after every message of the pull was processed, a message whose publish
\* failed stays un-acknowledged in the dead-letter source, and no acknowledge
\* call is made when no publish succeeded.
C24_AckExactlyPublished ==
    /\ Len(ackCalls) <= 1
    /\ \A i \in 1..Len(ackCalls) :
          /\ ackCalls[i].ackIds = PublishedOk
          /\ ackCalls[i].ackIds # {}
          /\ ackCalls[i].ackIds \subseteq PulledAckIds
          /\ Len(publishCalls) = Len(messages)
    /\ \A i \in 1..Len(publishCalls) :
          ~publishCalls[i].ok => \E h \in dlq : h.ackId = publishCalls[i].ackId
    /\ (pc = "loop" \/ pc = "ack") => ackCalls = <<>>
    /\ (pc = "pull" \/ pc = "stopped") => (Len(ackCalls) = 1 <=> PublishedOk # {})

\* a pull of two messages ended with one publish failed and one succeeded, and
\* the acknowledge call named the succeeded one only
C24_Witness ==
    /\ Len(messages) = 2
    /\ Len(ackCalls) = 1
    /\ Cardinality(ackCalls[1].ackIds) = 1
    /\ \E i \in 1..2 : ~publishCalls[i].ok

\* C25: over its whole lifetime a message is republished to the ingestion
\* topic at most maxReplayAttempts times, whatever publish failures,
\* acknowledge failures and dead-letter redeliveries occur.
C25_ReplayBudgetBounded ==
    \A m \in Msgs : republished[m] <= maxReplayAttempts

\* message m was published to the parking destination and the delivery that
\* was parked has been acknowledged from the dead-letter source
ParkedAndAcknowledged(m) ==
    /\ \E p \in parkingLot : p.id = m
    /\ ~\E h \in dlq : h.message.id = m /\ AttemptsRead(h.message) >= maxReplayAttempts

\* C26: once a message that keeps failing ingestion has been published to the
\* parking destination and acknowledged from the dead-letter source, it is
\* never republished to the ingestion topic again.
C26_NoReplayAfterParking ==
    [][\A m \in Msgs : ParkedAndAcknowledged(m) => republished'[m] = republished[m]]_vars

ListedReason(outcome, i) ==
    LET at == {j \in 1..Len(outcome.error.entries) : outcome.error.entries[j].index = i}
    IN  IF at = {} THEN "none" ELSE outcome.error.entries[CHOOSE j \in at : TRUE].reason

\* C28: an event whose row the sink rejected with reason "invalid" is answered
\* with a terminal 4xx and never 503, in batching mode and in single-message
\* mode alike.
C28_InvalidRowIsTerminal4xx ==
    \A c \in 1..Len(sinkCalls) :
        (sinkCalls[c].done /\ sinkCalls[c].outcome.kind = "partial") =>
            \A i \in 1..Len(sinkCalls[c].responses) :
                ListedReason(sinkCalls[c].outcome, i - 1) = "invalid" =>
                    LET r == result[sinkCalls[c].responses[i]]
                    IN  r.isTerminal /\ r.statusCode >= 400 /\ r.statusCode <= 499

\* the requests whose items a write carries, and whose callers it answers
ItemsOf(call)   == {call.events[i].d : i \in 1..Len(call.events)}
CallersOf(call) == {call.responses[i] : i \in 1..Len(call.responses)}

\* C29: an item added while a write is in flight joins the open batch and no
\* write already handed to the sink: a write's items are fixed when it is
\* flushed, no item is in two writes or in a write and the open batch, and the
\* callers a write answers are those of its own items. A queued caller's
\* result is delivered only by the return of the write that carries its item.
C29_BatchesIsolated ==
    /\ [](\A c \in 1..Len(sinkCalls) :
            /\ CallersOf(sinkCalls[c]) = ItemsOf(sinkCalls[c])
            /\ Len(sinkCalls[c].responses) = Len(sinkCalls[c].events)
            /\ \A i \in 1..Len(batchQueue) : batchQueue[i].d \notin ItemsOf(sinkCalls[c])
            /\ \A b \in 1..Len(sinkCalls) :
                  b # c => ItemsOf(sinkCalls[b]) \cap ItemsOf(sinkCalls[c]) = {})
    /\ [][/\ \A c \in 1..Len(sinkCalls) :
                /\ sinkCalls'[c].events = sinkCalls[c].events
                /\ sinkCalls'[c].responses = sinkCalls[c].responses
          /\ \A i \in 1..Len(batchQueue) :
                result'[batchQueue[i].d] = result[batchQueue[i].d]
          /\ \A c \in 1..Len(sinkCalls) : \A d \in ItemsOf(sinkCalls[c]) :
                result'[d] # result[d] => (~sinkCalls[c].done /\ sinkCalls'[c].done)
          /\ (Receive /\ Len(batchQueue') > Len(batchQueue)) =>
                \A c \in 1..Len(sinkCalls') :
                    Len(requests') \notin ItemsOf(sinkCalls'[c])]_vars

\* two batches are in flight at once, the later one returned first and only
\* its caller has been answered
C29_Witness ==
    /\ Len(sinkCalls) = 2
    /\ sinkCalls[1].mode = "batch" /\ sinkCalls[2].mode = "batch"
    /\ ~sinkCalls[1].done /\ sinkCalls[2].done
    /\ \A d \in ItemsOf(sinkCalls[1]) : result[d] = NoResult
    /\ \A d \in ItemsOf(sinkCalls[2]) : result[d] # NoResult

\* C30: the flush timer is armed when the first item enters an empty batch
\* that the size trigger does not flush; a timer is armed only while none is
\* scheduled; a scheduled timer was armed by the first item of the open batch,
\* so it never fires for a later batch; and a flush by the size trigger or by
\* shutdown leaves no timer scheduled.
C30_TimerBelongsToOpenBatch ==
    /\ [](timerScheduled =>
            /\ batchTimer
            /\ Len(batchQueue) > 0
            /\ timerArmedBy = batchQueue[1].d)
    /\ [](batchTimer => timerScheduled)
    /\ [][/\ (Receive /\ batchQueue = <<>> /\ Len(batchQueue') = 1 /\ maxBatchSize > 1) =>
                (timerScheduled' /\ timerArmedBy' = batchQueue'[1].d)
          /\ (timerScheduled' /\ timerArmedBy' # timerArmedBy) => ~timerScheduled
          /\ ((RunImmediate \/ Sigterm) /\ Len(sinkCalls') > Len(sinkCalls)) =>
                (~timerScheduled' /\ ~batchTimer')
          /\ (TimerFires /\ Len(sinkCalls') > Len(sinkCalls)) =>
                timerArmedBy = sinkCalls'[Len(sinkCalls')].events[1].d]_vars

\* a batch was flushed by the size trigger, which disarmed its timer, and the
\* next batch is open with a timer armed by its own first item
C30_Witness ==
    /\ \E c \in 1..Len(sinkCalls) :
          sinkCalls[c].mode = "batch" /\ Len(sinkCalls[c].events) >= maxBatchSize
    /\ Len(batchQueue) = 1
    /\ timerScheduled
    /\ timerArmedBy = batchQueue[1].d
    /\ timerArmedBy > 1

\* what the batch path resolves the single item of a one-item batch with,
\* given what the insert call did
OneItemBatchResult(events, outcome) ==
    flushResults(1, writeBatchToBigQuery(events, outcome))[1]

\* C31: with batch size 1 every accepted event is written in a sink call of
\* its own, started by its request handler, and for every sink outcome the
\* caller's result (success, status, terminal or not) equals the result a
\* one-item batch gives its item for the same sink outcome.
C31_SizeOneEqualsNoBatching ==
    maxBatchSize = 1 =>
        \A c \in 1..Len(sinkCalls) :
            /\ Len(sinkCalls[c].events) = 1
            /\ sinkCalls[c].done =>
                  LET d == sinkCalls[c].events[1].d
                      b == OneItemBatchResult(sinkCalls[c].events, sinkCalls[c].outcome)
                  IN  /\ result[d].success = b.success
                      /\ result[d].statusCode = b.statusCode
                      /\ result[d].isTerminal = b.isTerminal

\* C32: every failure result returned to a caller comes with a log record
\* written for that event (carrying its idempotency key, tenant and event
\* type as far as they were derived), also when the failure was resolved by a
\* batch flush.
C32_FailureLoggedPerEvent ==
    \A d \in Received :
        (result[d] # NoResult /\ ~result[d].success) =>
            \E l \in logs : l.event = d

C34_CapReportedOnlyWhenCapStopped ==
    capReported => messages # <<>>

\* the i-th caller handle of a list belongs to the request of the i-th item
Aligned(events, responses) ==
    /\ Len(events) = Len(responses)
    /\ \A i \in 1..Len(events) : responses[i] = events[i].d

\* C35: the item queue and the list of pending caller handles have the same
\* length and the i-th handle belongs to the caller of the i-th item, in the
\* open batch and in every write; and what the sink reported for row i of a
\* returned write (accepted or duplicate, or rejected) is what the caller of
\* the i-th item was answered (success, or failure).
C35_RowOutcomeReachesItsCaller ==
    /\ Aligned(batchQueue, pendingBatchResponses)
    /\ \A c \in 1..Len(sinkCalls) :
          sinkCalls[c].mode = "batch" =>
              /\ Aligned(sinkCalls[c].events, sinkCalls[c].responses)
              /\ (sinkCalls[c].done /\ sinkCalls[c].outcome.kind \in {"ok", "partial"}) =>
                    \A i \in 1..Len(sinkCalls[c].responses) :
                        result[sinkCalls[c].responses[i]].success
                            <=> RowFate(sinkCalls[c].outcome, i - 1) \in {"written", "duplicate"}

\* C36: a flush timer is armed only while the open batch is non-empty; while
\* the open batch is non-empty a flush trigger is pending (the timer or a
\* setImmediate callback); and a flush that finds the batch empty starts no
\* sink write, resolves no handle and leaves queue, handles and timer as they are.
C36_TriggerPendingIffBatchOpen ==
    /\ []((batchTimer \/ timerScheduled) => Len(batchQueue) > 0)
    /\ [](Len(batchQueue) > 0 => (timerScheduled \/ immediates > 0))
    /\ [][(FlushRuns /\ batchQueue = <<>>) =>
            /\ sinkCalls' = sinkCalls
            /\ resolveCalls' = resolveCalls
            /\ result' = result
            /\ batchQueue' = batchQueue
            /\ pendingBatchResponses' = pendingBatchResponses
            /\ batchTimer' = batchTimer]_vars

\* two size triggers were scheduled for one batch of three: the first flushed
\* it, the second ran on the empty batch and wrote nothing
C36_Witness ==
    /\ maxBatchSize = 2
    /\ Len(sinkCalls) = 1
    /\ Len(sinkCalls[1].events) = 3
    /\ immediates = 0
    /\ batchQueue = <<>>
    /\ ~batchTimer
    /\ proc = "running"

\* decimal strings of the integers >= 1
PositiveDecimals == {Decimals[i] : i \in 2..Len(Decimals)}

\* C37: whatever value x-replay-attempts has on a pulled message (absent, a
\* decimal integer or any other string), the message is parked, or it is
\* republished with an x-replay-attempts that is a decimal integer >= 1.
C37_CounterAlwaysAdvances ==
    uFn = "replayStep" =>
        \/ uOut.isParking
        \/ uOut.message.attributes.replayAttempts \in PositiveDecimals

\* C38: through all replays of a message, the x-original-message-id stamped
\* by the replay job is the id of the message as first dead-lettered.
C38_OriginalMessageIdKept ==
    \A m \in mainTopic \cup parkingLot :
        m.attributes.originalMessageId = <<m.id, 0>>

=============================================================================
